---- MODULE Spec2Model ----
(***************************************************************************)
(* Movie Rating Analyzer (src/MovieRatingAnalyser.py): the Movie record    *)
(* with its validation, and a MovieAnalyzer session with its load,         *)
(* analyze and export operations.                                          *)
(*                                                                         *)
(* Text is modelled by TLA+ strings, read one character at a time with     *)
(* Head/Tail/SubSeq, so that strip(), split('|'), int() and float() are    *)
(* computed from the characters of a line.  A rating is a decimal number   *)
(* held in hundredths (8.5 is 850): ratings are compared, summed and       *)
(* averaged exactly; a mean is the pair total/count and two means are      *)
(* compared by cross-multiplication.                                       *)
(***************************************************************************)
EXTENDS Integers, Sequences, FiniteSets, TLC

VARIABLES
    movies,                  \* self.movies: the records, in insertion order
    total_movies_processed,  \* self.total_movies_processed
    invalid_entries,         \* self.invalid_entries
    pc,                      \* "idle", or "loading" inside load_movies' loop
    file,                    \* the source of the current (or last) load_movies call
    line_num,                \* lines of `file` the loop has consumed so far
    pre,                     \* the session as the current (or last) load found it
    loads,                   \* number of load_movies calls made so far
    ret,                     \* what the last call returned (or raised)
    printed,                 \* what the last call wrote to the console
    exported,                \* what the last call wrote to the export file
    sys_stdout               \* sys.stdout: "console", or "file" while redirected

vars == <<movies, total_movies_processed, invalid_entries, pc, file, line_num,
          pre, loads, ret, printed, exported, sys_stdout>>

(***************************************************************************)
(* Bounds of the model.                                                    *)
(***************************************************************************)
MaxLines == 3      \* lines in an enumerated source
MaxLoads == 2      \* load_movies calls in one session
MaxTop == 4        \* largest top_count passed to analyze_movies
MaxRecords == 3    \* records in an enumerated collection

(***************************************************************************)
(* Configuration constants.                                                *)
(***************************************************************************)
Scale == 100                 \* a rating r is held as r * Scale
MAX_MOVIES == 300
MIN_RATING == 0 * Scale
MAX_RATING == 10 * Scale
MIN_YEAR == 1800
MAX_YEAR == 2030
DEFAULT_TOP_COUNT == 10
MIN_DIRECTOR_MOVIES == 2
TOP_DIRECTORS == 5

(***************************************************************************)
(* Characters and strings.                                                 *)
(***************************************************************************)
IsSpace(c) == c \in {" ", "\t"}

Digits == <<"0", "1", "2", "3", "4", "5", "6", "7", "8", "9">>

IsDigit(c) == \E i \in 1..10 : Digits[i] = c

DigitVal(c) == (CHOOSE i \in 1..10 : Digits[i] = c) - 1

RECURSIVE LStrip(_)
LStrip(s) == IF s # "" /\ IsSpace(Head(s)) THEN LStrip(Tail(s)) ELSE s

RECURSIVE RStrip(_)
RStrip(s) ==
    IF s # "" /\ IsSpace(SubSeq(s, Len(s), Len(s)))
    THEN RStrip(SubSeq(s, 1, Len(s) - 1))
    ELSE s

\* str.strip()
Strip(s) == RStrip(LStrip(s))

\* str.startswith(p) for a one-character p
StartsWith(s, p) == s # "" /\ Head(s) = p

\* str.split(sep): the fields between the occurrences of sep, never empty
RECURSIVE SplitFrom(_, _, _)
SplitFrom(s, sep, cur) ==
    IF s = "" THEN <<cur>>
    ELSE IF Head(s) = sep THEN <<cur>> \o SplitFrom(Tail(s), sep, "")
    ELSE SplitFrom(Tail(s), sep, cur \o Head(s))

Split(s, sep) == SplitFrom(s, sep, "")

RECURSIVE AllDigits(_)
AllDigits(s) == s = "" \/ (IsDigit(Head(s)) /\ AllDigits(Tail(s)))

RECURSIVE DigitsVal(_, _)
DigitsVal(s, acc) ==
    IF s = "" THEN acc ELSE DigitsVal(Tail(s), 10 * acc + DigitVal(Head(s)))

\* the text after an optional sign, and the sign
Unsigned(s) == IF StartsWith(s, "-") \/ StartsWith(s, "+") THEN Tail(s) ELSE s
Sign(s) == IF StartsWith(s, "-") THEN -1 ELSE 1

\* int(s): surrounding whitespace, an optional sign, one or more digits;
\* anything else raises ValueError (ok = FALSE)
ParseInt(s) ==
    LET t == Unsigned(Strip(s)) IN
    IF t # "" /\ AllDigits(t)
    THEN [ok |-> TRUE, val |-> Sign(Strip(s)) * DigitsVal(t, 0)]
    ELSE [ok |-> FALSE, val |-> 0]

\* position of the first "." of s, or 0
RECURSIVE DotAt(_, _)
DotAt(s, i) ==
    IF i > Len(s) THEN 0
    ELSE IF SubSeq(s, i, i) = "." THEN i
    ELSE DotAt(s, i + 1)

\* a fraction of at most two digits, in hundredths
FracVal(f) ==
    IF Len(f) = 0 THEN 0
    ELSE IF Len(f) = 1 THEN 10 * DigitsVal(f, 0)
    ELSE DigitsVal(f, 0)

\* float(s) for plain decimal text: surrounding whitespace, an optional sign,
\* digits with an optional "." and fraction (at least one digit in all);
\* anything else raises ValueError.  The value is in hundredths; the model's
\* inputs carry at most two fraction digits.
ParseFloat(s) ==
    LET t == Unsigned(Strip(s))
        d == DotAt(t, 1)
        ip == IF d = 0 THEN t ELSE SubSeq(t, 1, d - 1)
        fp == IF d = 0 THEN "" ELSE SubSeq(t, d + 1, Len(t))
    IN
    IF AllDigits(ip) /\ AllDigits(fp) /\ Len(ip) + Len(fp) > 0 /\ Len(fp) <= 2
    THEN [ok |-> TRUE,
          val |-> Sign(Strip(s)) * (DigitsVal(ip, 0) * Scale + FracVal(fp))]
    ELSE [ok |-> FALSE, val |-> 0]

\* str(n) for n >= 0
RECURSIVE IntToStr(_)
IntToStr(n) ==
    IF n < 10 THEN Digits[n + 1] ELSE IntToStr(n \div 10) \o Digits[(n % 10) + 1]

\* the code point order of the characters that occur in a decade label
Ord(c) == IF IsDigit(c) THEN 48 + DigitVal(c) ELSE 115

\* s < t in Python's string order (by code point, a proper prefix first)
RECURSIVE StrLess(_, _)
StrLess(s, t) ==
    IF t = "" THEN FALSE
    ELSE IF s = "" THEN TRUE
    ELSE IF Head(s) = Head(t) THEN StrLess(Tail(s), Tail(t))
    ELSE Ord(Head(s)) < Ord(Head(t))

(***************************************************************************)
(* Movie: the record and its validation.                                   *)
(***************************************************************************)
Raise(msg) == [ok |-> FALSE, error |-> msg]

\* a slip: a rating of MAX_RATING itself is refused
MovieBelowMaxRating(title, director, year, rating) ==
    IF year < MIN_YEAR \/ year > MAX_YEAR THEN Raise("Invalid year")
    ELSE IF ~(MIN_RATING <= rating /\ rating < MAX_RATING) THEN Raise("Invalid rating")
    ELSE IF Strip(title) = "" THEN Raise("Movie title cannot be empty.")
    ELSE IF Strip(director) = "" THEN Raise("Director name cannot be empty.")
    ELSE [ok |-> TRUE,
          movie |-> [title |-> title, director |-> director,
                     year |-> year, rating |-> rating]]

\* Movie(title, director, year, rating) with Movie.__post_init__: the record,
\* or the ValueError of the first rule that fails.  year is an int and rating
\* a number here, so the isinstance tests pass.
Movie(title, director, year, rating) ==
    IF year < MIN_YEAR \/ year > MAX_YEAR THEN Raise("Invalid year")
    ELSE IF ~(MIN_RATING <= rating /\ rating <= MAX_RATING) THEN Raise("Invalid rating")
    ELSE IF Strip(title) = "" THEN Raise("Movie title cannot be empty.")
    ELSE IF Strip(director) = "" THEN Raise("Director name cannot be empty.")
    ELSE [ok |-> TRUE,
          movie |-> [title |-> title, director |-> director,
                     year |-> year, rating |-> rating]]

\* a get_decade that rounds the year to the nearest decade
GetDecadeRounded(m) == IntToStr(((m.year + 5) \div 10) * 10) \o "s"

\* Movie.get_decade: the label of the decade, "1990s"
get_decade(m) == IntToStr((m.year \div 10) * 10) \o "s"

(***************************************************************************)
(* MovieAnalyzer.load_movies                                               *)
(***************************************************************************)
\* the part of _parse_and_add_movie before the append: the Movie of a line,
\* or the ValueError raised
ParseLine(line) ==
    LET parts == Split(line, "|") IN
    IF Len(parts) # 4 THEN Raise("Expected 4 fields separated by '|'")
    ELSE LET title == Strip(parts[1])
             director == Strip(parts[2])
             year == ParseInt(Strip(parts[3]))
             rating == ParseFloat(Strip(parts[4]))
         IN IF ~year.ok \/ ~rating.ok THEN Raise("Invalid numeric data")
            ELSE Movie(title, director, year.val, rating.val)

\* a slip: the Movie of the line is put in front of the collection
ParseAndAddInFront(ms, line) ==
    LET p == ParseLine(line) IN
    IF p.ok THEN [ok |-> TRUE, movies |-> <<p.movie>> \o ms] ELSE p

\* _parse_and_add_movie: the collection with the line's Movie appended
ParseAndAdd(ms, line) ==
    LET p == ParseLine(line) IN
    IF p.ok THEN [ok |-> TRUE, movies |-> Append(ms, p.movie)] ELSE p

\* a slip: only blank lines are skipped
SkippableIfBlank(line) == Strip(line) = ""

\* the loop's test for lines that are skipped
Skippable(line) == Strip(line) = "" \/ StartsWith(Strip(line), "#")

\* a slip: the limit test lets one record too many in
LimitReachedLate(ms) == Len(ms) > MAX_MOVIES

\* the loop's limit test, made after a line was added
LimitReached(ms) == Len(ms) >= MAX_MOVIES

\* the values a call returns, as Python writes them
Bool(b) == IF b THEN "True" ELSE "False"

\* the value load_movies returns when its loop has ended
LoadResult(ms) == Bool(Len(ms) > 0)

NoFile == [kind |-> "none", lines |-> <<>>, undecodable |-> FALSE]

\* print() writes to sys.stdout.  Once export_analysis has left sys.stdout
\* set to its closed file, every print raises ValueError.
CanPrint == sys_stdout = "console"

\* what load_movies prints when its loop has ended
LoadSummary(ms, inv) ==
    <<[kind |-> "loaded", count |-> Len(ms)]>>
    \o (IF inv > 0 THEN <<[kind |-> "skipped", count |-> inv]>> ELSE <<>>)

\* a call returns val, having printed out
Returns(op, val, out) ==
    /\ pc' = "idle"
    /\ ret' = [op |-> op, val |-> val]
    /\ printed' = out

\* a print of the call raised ValueError (sys.stdout is a closed file); in
\* load_movies and export_analysis the handler that catches it prints too, so
\* the ValueError leaves the call
Raises(op) == Returns(op, "ValueError", <<>>)

\* load_movies is called: the path tests and open().  A missing path, a
\* directory and a file that may not be read print an error and return False.
LoadStart(src) ==
    /\ pc = "idle"
    /\ loads < MaxLoads
    /\ loads' = loads + 1
    /\ pre' = [movies |-> movies, total_movies_processed |-> total_movies_processed,
                invalid_entries |-> invalid_entries, fresh |-> ret.op = "__init__"]
    /\ file' = src
    /\ line_num' = 0
    /\ exported' = <<>>
    /\ UNCHANGED <<movies, total_movies_processed, invalid_entries, sys_stdout>>
    /\ IF src.kind = "file"
       THEN /\ pc' = "loading"
            /\ ret' = [op |-> "load", val |-> "pending"]
            /\ printed' = <<>>
       ELSE IF CanPrint
       THEN Returns("load", "False", <<[kind |-> "error", what |-> src.kind]>>)
       ELSE Raises("load")

\* one pass of the loop over the next line of the file
LoadLine ==
    /\ pc = "loading"
    /\ line_num < Len(file.lines)
    /\ line_num' = line_num + 1
    /\ UNCHANGED <<file, pre, loads, exported, sys_stdout>>
    /\ LET line == file.lines[line_num + 1]
           r == ParseAndAdd(movies, line)
       IN
       \/ /\ Skippable(line)
          /\ UNCHANGED <<movies, total_movies_processed, invalid_entries,
                         pc, ret, printed>>
       \/ /\ ~Skippable(line)
          /\ ~r.ok
          /\ total_movies_processed' = total_movies_processed + 1
          /\ invalid_entries' = invalid_entries + 1
          /\ UNCHANGED movies
          /\ IF CanPrint
             THEN /\ printed' = Append(printed, [kind |-> "warning",
                                                 line |-> line_num + 1,
                                                 error |-> r.error])
                  /\ UNCHANGED <<pc, ret>>
             ELSE Raises("load")
       \/ /\ ~Skippable(line)
          /\ r.ok
          /\ total_movies_processed' = total_movies_processed + 1
          /\ movies' = r.movies
          /\ UNCHANGED invalid_entries
          /\ IF ~LimitReached(r.movies) THEN UNCHANGED <<pc, ret, printed>>
             ELSE IF CanPrint
             THEN Returns("load", LoadResult(r.movies),
                          Append(printed, [kind |-> "limit", count |-> MAX_MOVIES])
                          \o LoadSummary(r.movies, invalid_entries))
             ELSE Raises("load")

\* the file iterator has no further line to give: the loop ends and
\* load_movies returns, or the rest of the file cannot be decoded and the
\* UnicodeDecodeError handler returns False
LoadEnd ==
    /\ pc = "loading"
    /\ line_num = Len(file.lines)
    /\ UNCHANGED <<movies, total_movies_processed, invalid_entries, file, line_num,
                   pre, loads, exported, sys_stdout>>
    /\ IF ~CanPrint THEN Raises("load")
       ELSE IF file.undecodable
       THEN Returns("load", "False",
                    Append(printed, [kind |-> "error", what |-> "undecodable"]))
       ELSE Returns("load", LoadResult(movies),
                    printed \o LoadSummary(movies, invalid_entries))

(***************************************************************************)
(* MovieAnalyzer.analyze_movies and its _display_ helpers.  Each gives the *)
(* lines it prints.                                                        *)
(***************************************************************************)
Min(a, b) == IF a <= b THEN a ELSE b
Max(a, b) == IF a >= b THEN a ELSE b

\* s[:n]
Slice(s, n) == SubSeq(s, 1, IF n >= 0 THEN Min(n, Len(s)) ELSE Max(Len(s) + n, 0))

\* a sort key of the rating alone
MovieBeforeByRating(a, b) == a.rating > b.rating

\* key=lambda m: (-m.rating, m.year)
MovieBefore(a, b) ==
    \/ a.rating > b.rating
    \/ (a.rating = b.rating /\ a.year < b.year)

\* key=total_rating / count with reverse=True: a comes before b when a's
\* average is the greater one
DirectorBefore(a, b) == a.total_rating * b.count > b.total_rating * a.count

\* sorted(decade_stats.items()): by the label, as text
DecadeBefore(a, b) == StrLess(a.key, b.key)

\* key(a) < key(b) in the sort named by
Before(by, a, b) ==
    CASE by = "rating" -> MovieBefore(a, b)
      [] by = "director" -> DirectorBefore(a, b)
      [] by = "decade" -> DecadeBefore(a, b)

\* how many records of the sorted r, among r[lo..hi], come before x
RECURSIVE CountBefore(_, _, _, _, _)
CountBefore(r, x, by, lo, hi) ==
    IF lo > hi THEN lo - 1
    ELSE LET mid == (lo + hi) \div 2 IN
         IF Before(by, r[mid], x)
         THEN CountBefore(r, x, by, mid + 1, hi)
         ELSE CountBefore(r, x, by, lo, mid - 1)

\* the merge of two sorted runs, a record of l before its equals in r: the
\* middle record of l, the records that go before it and those that go after
RECURSIVE Merge(_, _, _)
Merge(l, r, by) ==
    IF l = <<>> THEN r
    ELSE IF r = <<>> THEN l
    ELSE LET m == (Len(l) + 1) \div 2
             k == CountBefore(r, l[m], by, 1, Len(r))
         IN Merge(SubSeq(l, 1, m - 1), SubSeq(r, 1, k), by)
            \o <<l[m]>>
            \o Merge(SubSeq(l, m + 1, Len(l)), SubSeq(r, k + 1, Len(r)), by)

\* sorted(): a stable sort, by merging
RECURSIVE Sorted(_, _)
Sorted(s, by) ==
    IF Len(s) <= 1 THEN s
    ELSE LET h == Len(s) \div 2 IN
         Merge(Sorted(SubSeq(s, 1, h), by), Sorted(SubSeq(s, h + 1, Len(s)), by), by)

\* _display_top_movies
TopMovies(sorted_movies, count) ==
    LET actual_count == Min(count, Len(sorted_movies))
        top == Slice(sorted_movies, actual_count)
    IN <<[kind |-> "top_header", count |-> actual_count]>>
       \o [i \in 1..Len(top) |-> [kind |-> "movie", rank |-> i, movie |-> top[i]]]

\* sum(xs), min(xs) and max(xs) of a list that is not empty, by halves
RECURSIVE Sum(_)
Sum(xs) ==
    IF Len(xs) = 1 THEN xs[1]
    ELSE LET h == Len(xs) \div 2 IN
         Sum(SubSeq(xs, 1, h)) + Sum(SubSeq(xs, h + 1, Len(xs)))

RECURSIVE Least(_)
Least(xs) ==
    IF Len(xs) = 1 THEN xs[1]
    ELSE LET h == Len(xs) \div 2 IN
         Min(Least(SubSeq(xs, 1, h)), Least(SubSeq(xs, h + 1, Len(xs))))

RECURSIVE Greatest(_)
Greatest(xs) ==
    IF Len(xs) = 1 THEN xs[1]
    ELSE LET h == Len(xs) \div 2 IN
         Max(Greatest(SubSeq(xs, 1, h)), Greatest(SubSeq(xs, h + 1, Len(xs))))

\* _display_statistics; the average is total / count
Statistics(ms) ==
    LET ratings == [i \in 1..Len(ms) |-> ms[i].rating]
        years == [i \in 1..Len(ms) |-> ms[i].year]
    IN <<[kind |-> "stats_header"],
         [kind |-> "total", count |-> Len(ms)],
         [kind |-> "average", total |-> Sum(ratings), count |-> Len(ms)],
         [kind |-> "rating_range", min |-> Least(ratings), max |-> Greatest(ratings)],
         [kind |-> "year_range", min |-> Least(years), max |-> Greatest(years)]>>

\* the key a record is grouped under: movie.director, movie.get_decade()
KeyOf(by, m) == IF by = "director" THEN m.director ELSE get_decade(m)

\* position of the entry of a key in a dict's items, or 0
RECURSIVE KeyAt(_, _, _)
KeyAt(items, key, i) ==
    IF i > Len(items) THEN 0
    ELSE IF items[i].key = key THEN i
    ELSE KeyAt(items, key, i + 1)

\* the dict with the counts and totals of further entries added, a new key
\* going to the end
RECURSIVE AddStats(_, _)
AddStats(items, more) ==
    IF more = <<>> THEN items
    ELSE LET e == Head(more)
             at == KeyAt(items, e.key, 1)
         IN AddStats(IF at = 0 THEN Append(items, e)
                     ELSE [items EXCEPT ![at].count = @ + e.count,
                                        ![at].total_rating = @ + e.total_rating],
                     Tail(more))

\* the items of the dict the two _display_ loops build: one entry per key,
\* in the order the keys first occur, with the count and the rating total.
\* The loop over ms is taken as the loop over its first half followed by the
\* loop over its second half.
RECURSIVE GroupStats(_, _)
GroupStats(ms, by) ==
    IF ms = <<>> THEN <<>>
    ELSE IF Len(ms) = 1
    THEN <<[key |-> KeyOf(by, ms[1]), count |-> 1, total_rating |-> ms[1].rating]>>
    ELSE LET h == Len(ms) \div 2 IN
         AddStats(GroupStats(SubSeq(ms, 1, h), by),
                  GroupStats(SubSeq(ms, h + 1, Len(ms)), by))

\* if stats['count'] >= 2
Qualified(stats) == stats.count >= MIN_DIRECTOR_MOVIES

\* the qualified_directors comprehension
RECURSIVE QualifiedDirectors(_)
QualifiedDirectors(items) ==
    IF items = <<>> THEN <<>>
    ELSE (IF Qualified(Head(items)) THEN <<Head(items)>> ELSE <<>>)
         \o QualifiedDirectors(Tail(items))

\* the first five taken before they are sorted
TopDirectorsCutFirst(qualified_directors) ==
    Sorted(Slice(qualified_directors, TOP_DIRECTORS), "director")

\* sorted(...)[:5]
TopDirectors(qualified_directors) ==
    Slice(Sorted(qualified_directors, "director"), TOP_DIRECTORS)

\* _display_director_analysis
DirectorAnalysis(ms) ==
    LET qualified_directors == QualifiedDirectors(GroupStats(ms, "director"))
        sorted_directors == TopDirectors(qualified_directors)
    IN IF qualified_directors = <<>> THEN <<>>
       ELSE <<[kind |-> "directors_header"]>>
            \o [i \in 1..Len(sorted_directors) |->
                  [kind |-> "director", director |-> sorted_directors[i].key,
                   total |-> sorted_directors[i].total_rating,
                   count |-> sorted_directors[i].count]]

\* _display_decade_analysis
DecadeAnalysis(ms) ==
    LET sorted_decades == Sorted(GroupStats(ms, "decade"), "decade")
    IN <<[kind |-> "decades_header"]>>
       \o [i \in 1..Len(sorted_decades) |->
             [kind |-> "decade", decade |-> sorted_decades[i].key,
              count |-> sorted_decades[i].count,
              total |-> sorted_decades[i].total_rating]]

\* sorted(self.movies, key=lambda m: (-m.rating, m.year))
SortedMovies(ms) == Sorted(ms, "rating")

\* a report that prints the decades before the directors
AnalysisReportDecadesFirst(ms, top_count) ==
    IF ms = <<>> THEN <<[kind |-> "no_movies"]>>
    ELSE TopMovies(SortedMovies(ms), top_count)
         \o Statistics(ms)
         \o DecadeAnalysis(ms)
         \o DirectorAnalysis(ms)

\* what analyze_movies prints
AnalysisReport(ms, top_count) ==
    IF ms = <<>> THEN <<[kind |-> "no_movies"]>>
    ELSE TopMovies(SortedMovies(ms), top_count)
         \o Statistics(ms)
         \o DirectorAnalysis(ms)
         \o DecadeAnalysis(ms)

\* an analyze_movies that sorts self.movies itself, with list.sort()
AnalyzeSortingInPlace(top_count) ==
    /\ pc = "idle"
    /\ exported' = <<>>
    /\ movies' = SortedMovies(movies)
    /\ UNCHANGED <<total_movies_processed, invalid_entries, file, line_num,
                   pre, loads, sys_stdout>>
    /\ pc' = "idle"
    /\ ret' = [op |-> "analyze", top_count |-> top_count,
               val |-> IF CanPrint THEN "None" ELSE "ValueError"]
    /\ printed' = IF CanPrint THEN AnalysisReport(movies, top_count) ELSE <<>>

\* analyze_movies(top_count) is called
Analyze(top_count) ==
    /\ pc = "idle"
    /\ exported' = <<>>
    /\ UNCHANGED <<movies, total_movies_processed, invalid_entries, file, line_num,
                   pre, loads, sys_stdout>>
    /\ pc' = "idle"
    /\ ret' = [op |-> "analyze", top_count |-> top_count,
               val |-> IF CanPrint THEN "None" ELSE "ValueError"]
    /\ printed' = IF CanPrint THEN AnalysisReport(movies, top_count) ELSE <<>>

(***************************************************************************)
(* MovieAnalyzer.export_analysis                                           *)
(***************************************************************************)
\* an export with a rendering of its own, that lists the movies unranked
ExportTextUnranked(ms) ==
    <<[kind |-> "report_title"], [kind |-> "rule"]>>
    \o (IF ms = <<>> THEN <<[kind |-> "no_movies"]>>
        ELSE TopMovies(ms, DEFAULT_TOP_COUNT)
             \o Statistics(ms)
             \o DirectorAnalysis(ms)
             \o DecadeAnalysis(ms))

\* what export_analysis writes to its file: the title lines, then
\* analyze_movies() with its default top_count
ExportText(ms) ==
    <<[kind |-> "report_title"], [kind |-> "rule"]>>
    \o AnalysisReport(ms, DEFAULT_TOP_COUNT)

\* what may happen to an export: the file is written; open() fails; the
\* working directory is gone, so that Path().cwd() raises after sys.stdout
\* was redirected; a print to the file fails while the report is rendered;
\* the buffered text cannot be written when the file is closed, after
\* sys.stdout was restored
Destinations == {"written", "unwritable", "cwd_removed", "write_error", "disk_full"}

\* the outcomes that raise between sys.stdout = f and its restoration: the
\* with block closes f and the handler prints to it
RaisedWhileRedirected == {"cwd_removed", "write_error"}

\* export_analysis(output_file) is called
Export(dest) ==
    /\ pc = "idle"
    /\ UNCHANGED <<movies, total_movies_processed, invalid_entries, file, line_num,
                   pre, loads>>
    /\ exported' = CASE dest = "written" -> ExportText(movies)
                     [] OTHER -> <<>>
    /\ sys_stdout' = IF dest \in RaisedWhileRedirected THEN "closed_file" ELSE sys_stdout
    /\ IF CanPrint /\ dest \notin RaisedWhileRedirected
       THEN Returns("export", Bool(dest = "written"),
                    <<[kind |-> IF dest = "written" THEN "exported" ELSE "error",
                       what |-> dest]>>)
       ELSE Raises("export")

(***************************************************************************)
(* A Movie is constructed by a caller other than the loader.               *)
(***************************************************************************)
Construct(title, director, year, rating) ==
    /\ pc = "idle"
    /\ exported' = <<>>
    /\ UNCHANGED <<movies, total_movies_processed, invalid_entries, file, line_num,
                   pre, loads, sys_stdout>>
    /\ Returns("Movie", [args |-> <<title, director, year, rating>>,
                         result |-> Movie(title, director, year, rating)], <<>>)

(***************************************************************************)
(* The inputs.                                                             *)
(***************************************************************************)
SeqsUpTo(S, n) == UNION {[1..k -> S] : k \in 0..n}

TextFile(lines) == [kind |-> "file", lines |-> lines, undecodable |-> FALSE]

\* a file whose bytes after the given lines are not UTF-8
Undecodable(lines) == [kind |-> "file", lines |-> lines, undecodable |-> TRUE]

NonFile(kind) == [kind |-> kind, lines |-> <<>>, undecodable |-> FALSE]

ValidLines == {"A|Bob|2000|8.5", "B|Ann|1995|8.5", " C | Bob |2010| 9.0"}

BadLines == {"Bad|Data", "E|Bob|19x4|8.5", "E|Bob|1994|high", "E||1994|8.5"}

SkippedLines == {"", "  # top"}

Lines == ValidLines \cup BadLines \cup SkippedLines

NonFiles == {NonFile("missing"), NonFile("directory"), NonFile("denied")}

\* the sources of a session's first load
Sources ==
    {TextFile(l) : l \in SeqsUpTo(Lines, MaxLines)}
    \cup {Undecodable(l) : l \in SeqsUpTo({"A|Bob|2000|8.5", "Bad|Data"}, MaxLines - 1)}
    \cup NonFiles

\* the sources of its later loads
Reloads ==
    {TextFile(<<"  # top", "Bad|Data">>),
     TextFile(<<"B|Ann|1995|8.5", "", "E||1994|8.5">>),
     Undecodable(<<"A|Bob|2000|8.5">>), NonFile("missing")}

TopCounts == (-1..MaxTop) \cup {DEFAULT_TOP_COUNT}

Titles == {"", " ", " Up "}
Directors == {"", "\t", "Bob"}
Years == {MIN_YEAR - 1, MIN_YEAR, MAX_YEAR, MAX_YEAR + 1}
Ratings == {MIN_RATING - 1, MIN_RATING, MAX_RATING, MAX_RATING + 1}

(***************************************************************************)
(* The session of one process: a MovieAnalyzer after __init__, with        *)
(* sys.stdout the console.                                                 *)
(***************************************************************************)
Init ==
    /\ movies = <<>>
    /\ total_movies_processed = 0
    /\ invalid_entries = 0
    /\ pc = "idle"
    /\ file = NoFile
    /\ line_num = 0
    /\ pre = [movies |-> <<>>, total_movies_processed |-> 0, invalid_entries |-> 0,
               fresh |-> FALSE]
    /\ loads = 0
    /\ ret = [op |-> "__init__", val |-> "None"]
    /\ printed = <<>>
    /\ exported = <<>>
    /\ sys_stdout = "console"

Load == \E src \in (IF loads = 0 THEN Sources ELSE Reloads) : LoadStart(src)

Next ==
    \/ Load
    \/ LoadLine
    \/ LoadEnd
    \/ \E n \in {1, DEFAULT_TOP_COUNT} : Analyze(n)
    \/ \E dest \in Destinations : Export(dest)

Spec == Init /\ [][Next]_vars

(***************************************************************************)
(* Movies constructed by callers and by the loader.                        *)
(***************************************************************************)
MovieSources == {TextFile(<<l>>) : l \in Lines}

LoadMovie == \E src \in MovieSources : LoadStart(src)

NextMovie ==
    \/ \E t \in Titles, d \in Directors, y \in Years, r \in Ratings : Construct(t, d, y, r)
    \/ LoadMovie
    \/ LoadLine
    \/ LoadEnd

SpecMovie == Init /\ [][NextMovie]_vars

(***************************************************************************)
(* Sessions that load files longer than MAX_MOVIES.                        *)
(***************************************************************************)
FillLine(i) == IF i % 2 = 1 THEN "A|Bob|2000|8.5" ELSE "B|Ann|1995|8.5"

\* a file of n valid lines between a head and a tail
LongFile(head, n, tail) == TextFile(head \o [i \in 1..n |-> FillLine(i)] \o tail)

CapSources ==
    {LongFile(h, n, t) : h \in {<<>>, <<"Bad|Data", "  # top">>},
                         n \in {MAX_MOVIES - 1, MAX_MOVIES, MAX_MOVIES + 1},
                         t \in {<<>>, <<"E|Bob|19x4|8.5", " C | Bob |2010| 9.0">>}}
    \cup {NonFile("missing")}

CapReloads ==
    {TextFile(<<" C | Bob |2010| 9.0">>),
     TextFile(<<"Bad|Data", "", "A|Bob|2000|8.5", "B|Ann|1995|8.5">>),
     Undecodable(<<>>)}

LoadCap == \E src \in (IF loads = 0 THEN CapSources ELSE CapReloads) : LoadStart(src)

NextCap ==
    \/ LoadCap
    \/ LoadLine
    \/ LoadEnd
    \/ Analyze(DEFAULT_TOP_COUNT)
    \/ \E dest \in {"written", "cwd_removed"} : Export(dest)

SpecCap == Init /\ [][NextCap]_vars

(***************************************************************************)
(* Sessions that analyze a loaded collection.                              *)
(***************************************************************************)
\* the Movie of a valid line
Rec(line) == ParseLine(line).movie

SampleMovies ==
    {Rec(l) : l \in {"A|Bob|2000|8.5", "B|Ann|1995|8.5", "C|Bob|2010|9.0",
                     "D|Cid|2000|8.5", "E|Ann|1999|7.25"}}

\* the ratings of one director's movies
DirectorRatings == {<<850>>, <<800, 900, 850>>, <<900, 1000>>}

\* one director more than are surfaced
DirectorCount == TOP_DIRECTORS + 1

DirectorName(d) == "Dir" \o IntToStr(d)

\* the k-th movies of the directors that have k movies, in director order
RECURSIVE Round(_, _, _)
Round(c, k, d) ==
    IF d > DirectorCount THEN <<>>
    ELSE (IF Len(c[d]) >= k
          THEN <<[title |-> "T" \o IntToStr(k), director |-> DirectorName(d),
                  year |-> 1990 + 3 * d, rating |-> c[d][k]]>>
          ELSE <<>>) \o Round(c, k, d + 1)

DirectorCollection(c) == Round(c, 1, 1) \o Round(c, 2, 1) \o Round(c, 3, 1)

Collections ==
    SeqsUpTo(SampleMovies, MaxRecords)
    \cup {DirectorCollection(c) : c \in [1..DirectorCount -> DirectorRatings]}

\* a rating as text, with two decimals
RatingText(r) ==
    IntToStr(r \div Scale) \o "." \o IntToStr((r % Scale) \div 10) \o IntToStr(r % 10)

\* the line of a file that holds a record
LineOf(m) ==
    m.title \o "|" \o m.director \o "|" \o IntToStr(m.year) \o "|" \o RatingText(m.rating)

\* load_movies run to its end on a new session: the session it leaves
RECURSIVE Loaded(_, _)
Loaded(lines, n) ==
    IF n = 0 THEN <<>>
    ELSE LET ms == Loaded(lines, n - 1)
             r == ParseAndAdd(ms, lines[n])
         IN IF ~Skippable(lines[n]) /\ r.ok /\ ~LimitReached(ms) THEN r.movies ELSE ms

\* the session after a first load, of the file that holds a collection
InitAgg ==
    /\ movies \in Collections
    /\ file = TextFile([i \in 1..Len(movies) |-> LineOf(movies[i])])
    /\ movies = Loaded(file.lines, Len(file.lines))
    /\ total_movies_processed = Len(movies)
    /\ invalid_entries = 0
    /\ pc = "idle"
    /\ line_num = Len(movies)
    /\ pre = [movies |-> <<>>, total_movies_processed |-> 0, invalid_entries |-> 0,
               fresh |-> TRUE]
    /\ loads = 1
    /\ ret = [op |-> "load", val |-> LoadResult(movies)]
    /\ printed = LoadSummary(movies, 0)
    /\ exported = <<>>
    /\ sys_stdout = "console"

NextAgg == \E n \in TopCounts : Analyze(n)

SpecAgg == InitAgg /\ [][NextAgg]_vars

(***************************************************************************)
(* What the properties speak of.                                           *)
(***************************************************************************)
\* the lines the loop of the current (or last) load has consumed
Consumed == SubSeq(file.lines, 1, line_num)

\* a blank line or a comment
BlankOrComment(line) ==
    LET t == Strip(line) IN t = "" \/ SubSeq(t, 1, 1) = "#"

\* a line that is read (neither blank nor comment), and one that gives a record
IsRead(line) == ~BlankOrComment(line)
IsValid(line) == IsRead(line) /\ ParseLine(line).ok
IsRejected(line) == IsRead(line) /\ ~ParseLine(line).ok

\* the records of the valid lines, in the order of the lines
ValidRecords(lines) ==
    LET valid == SelectSeq(lines, IsValid)
    IN [i \in 1..Len(valid) |-> ParseLine(valid[i]).movie]

\* the current (or last) load reads a source that opens and decodes
ReadableSource == file.kind = "file" /\ ~file.undecodable

\* a load_movies call has just ended
LoadDone == pc = "idle" /\ ret.op = "load"

\* a load is under way, or has just ended, on a session that had seen no call
FreshLoad == pre.fresh /\ (pc = "loading" \/ LoadDone)

(***************************************************************************)
(* C1. Partial-failure isolation: while a readable source is loaded into   *)
(* a fresh session, the collection is at every line the records of the     *)
(* valid lines read so far, in file order, whatever lines were rejected    *)
(* between them; the load ends only when every line was read (or the cap   *)
(* was reached), and then the collection is the records of all the valid   *)
(* lines of the file, up to the cap.                                       *)
(***************************************************************************)
C1_PartialFailureIsolation ==
    (FreshLoad /\ ReadableSource) =>
        /\ movies = ValidRecords(Consumed)
        /\ LoadDone =>
              /\ line_num = Len(file.lines) \/ Len(movies) = MAX_MOVIES
              /\ movies = Slice(ValidRecords(file.lines), MAX_MOVIES)

\* a load has ended that kept the records on both sides of a rejected line
C1_Witness ==
    /\ FreshLoad /\ ReadableSource /\ LoadDone
    /\ \E i, j, k \in 1..Len(file.lines) :
          /\ i < j /\ j < k
          /\ IsValid(file.lines[i]) /\ IsRejected(file.lines[j]) /\ IsValid(file.lines[k])
    /\ Len(movies) = 2
    /\ invalid_entries = 1

(***************************************************************************)
(* C2. A load into a fresh session from a readable source with more than   *)
(* MAX_MOVIES valid lines ends with exactly MAX_MOVIES records: reading    *)
(* stopped at the valid line that brought the count to MAX_MOVIES, and the *)
(* counters count the lines up to that one only.                           *)
(***************************************************************************)
C2_StopsAtCap ==
    (FreshLoad /\ LoadDone /\ ReadableSource
     /\ Len(ValidRecords(file.lines)) > MAX_MOVIES) =>
        /\ Len(movies) = MAX_MOVIES
        /\ line_num >= 1
        /\ IsValid(file.lines[line_num])
        /\ Len(ValidRecords(Consumed)) = MAX_MOVIES
        /\ total_movies_processed = Len(SelectSeq(Consumed, IsRead))
        /\ invalid_entries = Len(SelectSeq(Consumed, IsRejected))

\* a load has ended at the cap with lines of the file left unread
C2_Witness ==
    /\ FreshLoad /\ LoadDone /\ ReadableSource
    /\ Len(ValidRecords(file.lines)) > MAX_MOVIES
    /\ Len(movies) = MAX_MOVIES
    /\ line_num < Len(file.lines)
    /\ invalid_entries > 0

(***************************************************************************)
(* C3. The collection never holds more than MAX_MOVIES records.            *)
(***************************************************************************)
C3_AtMostMaxMovies == Len(movies) <= MAX_MOVIES

(***************************************************************************)
(* C4. A load call returns True exactly when that call added at least one  *)
(* record to the collection, and does not when it added none, on a fresh   *)
(* session and on one loaded before.  (Stated for the sources that decode  *)
(* to their end, C5 speaking of the others, and for the calls made while   *)
(* sys.stdout is the console.)                                             *)
(***************************************************************************)
C4_SuccessIffCollected ==
    (LoadDone /\ ~file.undecodable /\ CanPrint) =>
        /\ Len(movies) > Len(pre.movies) => ret.val = "True"
        /\ Len(movies) = Len(pre.movies) => ret.val # "True"

(***************************************************************************)
(* C5. A load that ends in a source-access error (the source is missing,   *)
(* is a directory, may not be read, or cannot be decoded at some point)    *)
(* does not report success and leaves the collection and both counters as  *)
(* the call found them.  (Stated for the calls made while sys.stdout is    *)
(* the console.)                                                           *)
(***************************************************************************)
\* the last load met a source-access error: at the path tests, at open(),
\* or where the file cannot be decoded further
AccessError ==
    /\ LoadDone
    /\ CanPrint
    /\ \/ file.kind # "file"
       \/ file.undecodable /\ line_num = Len(file.lines)

C5_NoPartialState ==
    AccessError =>
        /\ ret.val # "True"
        /\ movies = pre.movies
        /\ total_movies_processed = pre.total_movies_processed
        /\ invalid_entries = pre.invalid_entries

(***************************************************************************)
(* C6. Movie(title, director, year, rating) gives a record exactly when    *)
(* MIN_YEAR <= year <= MAX_YEAR, MIN_RATING <= rating <= MAX_RATING and    *)
(* title and director are not empty once trimmed; otherwise it fails with  *)
(* the reason of the first rule broken, in the order year, rating, title,  *)
(* director.  Every record of the collection keeps the four rules.         *)
(***************************************************************************)
\* the four rules, in the order they are tested, and their reasons
RulesKept(title, director, year, rating) ==
    <<MIN_YEAR <= year /\ year <= MAX_YEAR,
      MIN_RATING <= rating /\ rating <= MAX_RATING,
      LStrip(title) # "",
      LStrip(director) # "">>

Reasons ==
    <<"Invalid year", "Invalid rating", "Movie title cannot be empty.",
      "Director name cannot be empty.">>

\* the first rule that is broken, or 0
FirstBroken(kept) ==
    IF \A i \in 1..4 : kept[i] THEN 0
    ELSE CHOOSE i \in 1..4 : ~kept[i] /\ \A j \in 1..(i - 1) : kept[j]

C6_ValidRecordsOnly ==
    /\ ret.op = "Movie" =>
          LET a == ret.val.args
              res == ret.val.result
              broken == FirstBroken(RulesKept(a[1], a[2], a[3], a[4]))
          IN /\ res.ok <=> broken = 0
             /\ res.ok => res.movie = [title |-> a[1], director |-> a[2],
                                       year |-> a[3], rating |-> a[4]]
             /\ ~res.ok => res.error = Reasons[broken]
    /\ \A i \in 1..Len(movies) :
          FirstBroken(RulesKept(movies[i].title, movies[i].director,
                                movies[i].year, movies[i].rating)) = 0

\* a construction has failed that broke a later rule as well as the one
\* reported, on a session that holds a record
C6_Witness ==
    /\ ret.op = "Movie"
    /\ ~ret.val.result.ok
    /\ LET a == ret.val.args
           kept == RulesKept(a[1], a[2], a[3], a[4])
       IN kept[1] /\ ~kept[2] /\ kept[3] /\ ~kept[4]
    /\ ret.val.result.error = "Invalid rating"
    /\ Len(movies) > 0

(***************************************************************************)
(* C7. Blank lines and comments change neither counter nor the collection; *)
(* every other line read adds one to total_movies_processed and either one *)
(* record to the collection or one to invalid_entries.  So after every     *)
(* line, and after any sequence of loads, total_movies_processed is the    *)
(* number of records plus invalid_entries.                                 *)
(***************************************************************************)
C7_CountersAccount ==
    /\ total_movies_processed = Len(movies) + invalid_entries
    /\ total_movies_processed
          = pre.total_movies_processed + Len(SelectSeq(Consumed, IsRead))
    /\ invalid_entries = pre.invalid_entries + Len(SelectSeq(Consumed, IsRejected))
    /\ Len(movies) = Len(pre.movies) + Len(SelectSeq(Consumed, IsValid))
    /\ SubSeq(movies, 1, Len(pre.movies)) = pre.movies

\* a second load has read a valid line, a blank line and a rejected line
C7_Witness ==
    /\ loads = 2
    /\ pc = "loading"
    /\ invalid_entries > 0
    /\ \E i \in 1..line_num : IsValid(file.lines[i])
    /\ \E i \in 1..line_num : BlankOrComment(file.lines[i])
    /\ \E i \in 1..line_num : IsRejected(file.lines[i])

(***************************************************************************)
(* What the properties of analyze_movies speak of.                         *)
(***************************************************************************)
\* analyze_movies has printed the report of a collection that is not empty
Analysed == ret.op = "analyze" /\ ret.val = "None" /\ movies # <<>>

\* the printed lines of one kind, in the order printed
Printed(kind) == SelectSeq(printed, LAMBDA l : l.kind = kind)

\* record j of the collection goes before record i in the ranking
Outranks(j, i) ==
    \/ movies[j].rating > movies[i].rating
    \/ movies[j].rating = movies[i].rating /\ movies[j].year < movies[i].year
    \/ movies[j].rating = movies[i].rating /\ movies[j].year = movies[i].year /\ j < i

\* the place of record i in the ranking
RankOf(i) == 1 + Cardinality({j \in 1..Len(movies) : Outranks(j, i)})

(***************************************************************************)
(* C8: the ranking is a permutation of the collection by rating            *)
(* descending, equal ratings by year ascending whatever the file order,    *)
(* records equal in both kept in file order; for every N >= 0 the top-N    *)
(* view lists exactly the first min(N, record count) records of that       *)
(* order, ranked from 1, and an N above the record count lists them all.   *)
(***************************************************************************)
C8_RankedTopN ==
    (Analysed /\ ret.top_count >= 0) =>
        LET top == Printed("movie")
            n == Len(movies)
            k == IF ret.top_count < n THEN ret.top_count ELSE n
        IN /\ {RankOf(i) : i \in 1..n} = 1..n
           /\ Len(top) = k
           /\ \A i \in 1..n :
                 RankOf(i) <= k =>
                     /\ top[RankOf(i)].movie = movies[i]
                     /\ top[RankOf(i)].rank = RankOf(i)

\* N above the record count, with two records of equal rating listed
\* against their file order and two records equal in rating and year
C8_Witness ==
    /\ Analysed
    /\ ret.top_count > Len(movies)
    /\ Len(Printed("movie")) = Len(movies)
    /\ \E i, j \in 1..Len(movies) :
          /\ i < j
          /\ movies[i].rating = movies[j].rating
          /\ movies[i].year > movies[j].year
          /\ RankOf(j) < RankOf(i)
    /\ \E i, j \in 1..Len(movies) :
          /\ i < j
          /\ movies[i] # movies[j]
          /\ movies[i].rating = movies[j].rating
          /\ movies[i].year = movies[j].year

\* the directors of the collection, by the exact string
DirectorsOf == {movies[i].director : i \in 1..Len(movies)}

\* the places of a director's records in the collection
RecordsOf(name) == {i \in 1..Len(movies) : movies[i].director = name}

\* the sum of the ratings of a director's records among the first n records
RECURSIVE RatingsUpTo(_, _)
RatingsUpTo(name, n) ==
    IF n = 0 THEN 0
    ELSE RatingsUpTo(name, n - 1)
         + (IF movies[n].director = name THEN movies[n].rating ELSE 0)

\* the directors with at least 2 records
Qualifying == {name \in DirectorsOf : Cardinality(RecordsOf(name)) >= 2}

\* mean(a) >= mean(b), of two (total, count) pairs
MeanAtLeast(ta, ca, tb, cb) == ta * cb >= tb * ca

(***************************************************************************)
(* C9: the director aggregation surfaces only directors with at least 2    *)
(* records, grouped by the exact director string; it surfaces at most 5    *)
(* entries, in descending order of mean rating; the surfaced entries are   *)
(* the 5 highest-mean qualifying directors (all of them when there are     *)
(* fewer); and each entry's count and mean are the count and the           *)
(* arithmetic mean of that director's records.                             *)
(***************************************************************************)
C9_TopDirectors ==
    Analysed =>
        LET d == Printed("director")
            surfaced == {d[i].director : i \in 1..Len(d)}
            all == Len(movies)
        IN /\ Len(d) <= 5
           /\ \A i \in 1..Len(d) :
                 /\ d[i].director \in Qualifying
                 /\ d[i].count = Cardinality(RecordsOf(d[i].director))
                 /\ d[i].total = RatingsUpTo(d[i].director, all)
           /\ \A i, j \in 1..Len(d) :
                 i < j =>
                     /\ d[i].director # d[j].director
                     /\ MeanAtLeast(d[i].total, d[i].count, d[j].total, d[j].count)
           /\ Len(d) = (IF Cardinality(Qualifying) < 5 THEN Cardinality(Qualifying) ELSE 5)
           /\ \A name \in Qualifying \ surfaced :
                 \A i \in 1..Len(d) :
                     MeanAtLeast(d[i].total, d[i].count,
                                 RatingsUpTo(name, all), Cardinality(RecordsOf(name)))

\* more than 5 directors qualify, and one that is left out comes in the
\* file before one that is surfaced and has a lower mean than it
C9_Witness ==
    /\ Analysed
    /\ Cardinality(Qualifying) > 5
    /\ Len(Printed("director")) = 5
    /\ LET d == Printed("director")
           surfaced == {d[i].director : i \in 1..Len(d)}
       IN \E name \in Qualifying \ surfaced :
              \E i \in 1..Len(d) :
                  /\ \A r \in RecordsOf(d[i].director) :
                        \E q \in RecordsOf(name) : q < r
                  /\ ~MeanAtLeast(RatingsUpTo(name, Len(movies)),
                                  Cardinality(RecordsOf(name)), d[i].total, d[i].count)

\* the decade of a year, as a number
DecadeStart(year) == year - (year % 10)

\* the places of the records of the decade a printed label names
BucketOf(label) ==
    {j \in 1..Len(movies) : IntToStr(DecadeStart(movies[j].year)) \o "s" = label}

\* the sum of the counts of the first n printed decades
RECURSIVE CountsUpTo(_, _)
CountsUpTo(dec, n) == IF n = 0 THEN 0 ELSE CountsUpTo(dec, n - 1) + dec[n].count

(***************************************************************************)
(* C10: the decade aggregation puts each record in exactly one bucket, the *)
(* bucket of floor(year/10)*10 (1994 -> 1990s, 2010 -> 2010s); the bucket  *)
(* counts sum to the total record count; every non-empty decade is         *)
(* surfaced exactly once; and the buckets are listed in ascending decade   *)
(* order.                                                                  *)
(***************************************************************************)
C10_DecadeBuckets ==
    Analysed =>
        LET dec == Printed("decade")
        IN /\ \A i \in 1..Len(dec) :
                 /\ BucketOf(dec[i].decade) # {}
                 /\ dec[i].count = Cardinality(BucketOf(dec[i].decade))
           /\ \A j \in 1..Len(movies) :
                 Cardinality({i \in 1..Len(dec) : j \in BucketOf(dec[i].decade)}) = 1
           /\ CountsUpTo(dec, Len(dec)) = Len(movies)
           /\ \A i, j \in 1..Len(dec) :
                 i < j =>
                     \A a \in BucketOf(dec[i].decade), b \in BucketOf(dec[j].decade) :
                         DecadeStart(movies[a].year) < DecadeStart(movies[b].year)

\* two decades met in the file in descending order, one of them holding
\* two records of different years
C10_Witness ==
    /\ Analysed
    /\ Len(Printed("decade")) >= 2
    /\ \E a, b \in 1..Len(movies) :
          a < b /\ DecadeStart(movies[a].year) > DecadeStart(movies[b].year)
    /\ \E i \in 1..Len(Printed("decade")) :
          /\ Printed("decade")[i].count >= 2
          /\ \E a, b \in BucketOf(Printed("decade")[i].decade) :
                movies[a].year # movies[b].year

(***************************************************************************)
(* What the properties of export_analysis speak of.                        *)
(***************************************************************************)
\* this step is the analysis report, with the default top count, printed to
\* the console for the very state whose report an export has just written
ReportAfterExport ==
    /\ pc = "idle"
    /\ exported # <<>>
    /\ ret'.op = "analyze"
    /\ ret'.val = "None"
    /\ ret'.top_count = DEFAULT_TOP_COUNT

(***************************************************************************)
(* C11, as stated: the text export writes to the destination file is       *)
(* identical to the text the analysis report writes to the console for     *)
(* the same state, nothing added or omitted.                               *)
(***************************************************************************)
C11_SameTextAsConsole ==
    [][ReportAfterExport => exported = printed']_vars

(***************************************************************************)
(* C11, amended: the text export writes to the destination file is a       *)
(* title line and a rule, followed by exactly the text the analysis        *)
(* report (with the default top count) writes to the console for the same  *)
(* state: same sections, same lines, nothing else added or omitted.        *)
(***************************************************************************)
C11_TitledReport ==
    [][ReportAfterExport =>
           /\ Len(exported) = Len(printed') + 2
           /\ exported[1] = [kind |-> "report_title"]
           /\ exported[2] = [kind |-> "rule"]
           /\ SubSeq(exported, 3, Len(exported)) = printed']_vars

\* an export has written the report of a collection whose ranking differs
\* from the file order
C11_Witness ==
    /\ pc = "idle"
    /\ ret.op = "export"
    /\ ret.val = "True"
    /\ Len(movies) >= 2
    /\ SortedMovies(movies) # movies
    /\ Len(exported) > Len(movies) + 2

(***************************************************************************)
(* What the properties of the report's layout speak of.                    *)
(***************************************************************************)
\* the section a printed line belongs to: 1 ranking, 2 statistics,
\* 3 director, 4 decade; 0 for a line of no section
SectionOf(line) ==
    CASE line.kind \in {"top_header", "movie"} -> 1
      [] line.kind \in {"stats_header", "total", "average", "rating_range",
                        "year_range"} -> 2
      [] line.kind \in {"directors_header", "director"} -> 3
      [] line.kind \in {"decades_header", "decade"} -> 4
      [] OTHER -> 0

\* the lines that open a section
SectionHeaders == {"top_header", "stats_header", "directors_header", "decades_header"}

\* the kinds of the printed lines of one section, in the order printed
KindsOfSection(n) ==
    LET lines == SelectSeq(printed, LAMBDA l : SectionOf(l) = n)
    IN [i \in 1..Len(lines) |-> lines[i].kind]

\* analyze_movies has returned, having printed to the console
Reported == pc = "idle" /\ ret.op = "analyze" /\ ret.val = "None"

(***************************************************************************)
(* C12: the report emits its sections in the fixed order ranking,          *)
(* statistics, director, decade, each opened by its header; the director   *)
(* section appears exactly when at least one director has 2 or more        *)
(* records; on an empty collection the report signals 'no data' and emits  *)
(* none of the four sections.                                              *)
(***************************************************************************)
C12_FixedSections ==
    Reported =>
        IF movies = <<>>
        THEN /\ printed = <<[kind |-> "no_movies"]>>
             /\ \A n \in 1..4 : KindsOfSection(n) = <<>>
        ELSE /\ \A i \in 1..Len(printed) : SectionOf(printed[i]) \in 1..4
             /\ \A i, j \in 1..Len(printed) :
                   i < j => SectionOf(printed[i]) <= SectionOf(printed[j])
             /\ \A i \in 1..Len(printed) :
                   IF i = 1 \/ SectionOf(printed[i - 1]) # SectionOf(printed[i])
                   THEN printed[i].kind \in SectionHeaders
                   ELSE printed[i].kind \notin SectionHeaders
             /\ Head(KindsOfSection(1)) = "top_header"
             /\ KindsOfSection(2) = <<"stats_header", "total", "average",
                                      "rating_range", "year_range">>
             /\ (KindsOfSection(3) # <<>>) <=> (Qualifying # {})
             /\ Qualifying # {} =>
                   /\ Head(KindsOfSection(3)) = "directors_header"
                   /\ Len(KindsOfSection(3)) >= 2
             /\ Head(KindsOfSection(4)) = "decades_header"
             /\ Len(KindsOfSection(4)) >= 2

\* a report with its four sections, the director one among them, from a
\* collection that also holds a director with a single record
C12_Witness ==
    /\ Reported
    /\ movies # <<>>
    /\ Qualifying # {}
    /\ DirectorsOf \ Qualifying # {}
    /\ \A n \in 1..4 : Len(KindsOfSection(n)) >= 2

\* this step is a call of analyze_movies or of export_analysis
AnalyzeOrExport == pc = "idle" /\ ret'.op \in {"analyze", "export"}

(***************************************************************************)
(* C13: only load changes the session: every analyze call and every        *)
(* export call, whether the export succeeds or fails, leaves the record    *)
(* collection (contents and order) and both counters unchanged, so that    *)
(* the aggregation results computed afterwards are those computed before.  *)
(***************************************************************************)
C13_OnlyLoadMutates ==
    [][AnalyzeOrExport =>
           /\ movies' = movies
           /\ total_movies_processed' = total_movies_processed
           /\ invalid_entries' = invalid_entries
           /\ AnalysisReport(movies', DEFAULT_TOP_COUNT)
                  = AnalysisReport(movies, DEFAULT_TOP_COUNT)]_vars

\* an export to an unwritable destination has returned failure, on a
\* session that holds records out of their ranking order and has rejected
\* a line
C13_Witness ==
    /\ pc = "idle"
    /\ ret.op = "export"
    /\ ret.val = "False"
    /\ printed = <<[kind |-> "error", what |-> "unwritable"]>>
    /\ SortedMovies(movies) # movies
    /\ invalid_entries > 0

\* this step is a call of export_analysis
ExportCall == pc = "idle" /\ ret'.op = "export"

(***************************************************************************)
(* C14: every export call ends by returning a success or failure result,   *)
(* with sys.stdout restored to the stream that was current before the      *)
(* call, and with its status message written to that stream: on no path    *)
(* does export return or raise while the output is still redirected to     *)
(* the export file.                                                        *)
(***************************************************************************)
C14_ExportRestoresStdout ==
    [][ExportCall =>
           /\ ret'.val \in {"True", "False"}
           /\ sys_stdout' = sys_stdout
           /\ Len(printed') = 1
           /\ printed'[1].kind \in {"exported", "error"}]_vars

====
